---- MODULE Spec2Model ----
(***************************************************************************)
(* Model of resqbite's main.py: the donation endpoint (donate_food), the   *)
(* quality analyzer, the route calculation, and the websocket live         *)
(* tracking (ConnectionManager + websocket_endpoint), all running as       *)
(* coroutines of one asyncio event loop.                                   *)
(*                                                                         *)
(* A coroutine runs without interruption from one await to the next, so    *)
(* each action below is one such segment of a handler.                     *)
(***************************************************************************)
EXTENDS Integers, Sequences, FiniteSets, TLC

\* ---------------------------------------------------------------- bounds
NumConns == 3           \* websocket objects (one per client connection)
MaxReports == 2         \* position reports sent by all clients together
NumAdmits == 2          \* POST /donate requests in flight at once
MaxStops == 4           \* locations of one direct calculate_route call

Conns == 1..NumConns
Drivers == {"D1", "D2"}            \* values of the {driver_id} path parameter
Payloads == {"37.1,-122.4"}        \* inbound GPS texts
NoConn == 0
Admits == 1..NumAdmits
Free == {}                         \* no donate_food call holds the event loop

VARIABLES
    active_connections, \* ConnectionManager.active_connections (a list)
    pc,                 \* where each websocket_endpoint coroutine is suspended
    driver_id,          \* the path parameter of each websocket_endpoint call
    open,               \* whether the client's transport is still up
    inbox,              \* texts sent by the client, not yet received
    message,            \* broadcast_location's argument, per running broadcast
    it,                 \* the list iterator's index of the for loop (line 58)
    connection,         \* the loop variable of the for loop (line 58)
    delivered,          \* what send_text has delivered to each client
    nsent,              \* reports sent so far by all clients
    start,              \* history: the registry when the broadcast began
    slow,               \* a client whose send never completes (or NoConn)
    call,               \* history: the last direct call of disconnect
    plan,               \* history: the last direct call of calculate_route
    loop,               \* the donate_food call running on the event loop, if any
    apc,                \* where each donate_food call is
    contents,           \* donate_food's contents (line 79)
    quality,            \* donate_food's quality (line 80)
    routed,             \* history: calculate_route was called by this call
    decision            \* what donate_food returned

hubvars == <<active_connections, pc, driver_id, open, inbox, message, it,
             connection, delivered, nsent, start, slow, call, plan>>
admitvars == <<apc, contents, quality, routed, decision>>
vars == <<hubvars, loop, admitvars>>

Range(s) == {s[i] : i \in 1..Len(s)}

\* ------------------------------------------------------ ConnectionManager

\* list.append(websocket), line 52
ListAppend(l, ws) == Append(l, ws)

\* list.remove(websocket), line 55: drops the first occurrence, ValueError
\* when there is none
ListRemove(l, ws) ==
    LET i == CHOOSE j \in 1..Len(l) : l[j] = ws /\ \A k \in 1..(j-1) : l[k] # ws
    IN SubSeq(l, 1, i - 1) \o SubSeq(l, i + 1, Len(l))

disconnect(l, ws) ==
    IF ws \in Range(l)
    THEN [list |-> ListRemove(l, ws), raised |-> "none"]
    ELSE [list |-> l, raised |-> "ValueError"]

\* f"Driver {driver_id} is at: {data}", line 71
FormatLocation(id, data) == "Driver " \o id \o " is at: " \o data


\* ------------------------------------------------------ websocket_endpoint

NoMsg == [text |-> "", from |-> NoConn, n |-> 0]
NoCall == [ws |-> NoConn, raised |-> "none", before |-> <<>>, after |-> <<>>]
NoPlan == [locations |-> <<>>, route |-> ""]

\* what send_text raises when the peer is gone depends on the server stack and
\* on the socket's state: WebSocketDisconnect, or another exception
SendErrors == {"WebSocketDisconnect", "RuntimeError"}

\* receive_text handing out the newest text first
NewestReport(q) == q[Len(q)]

\* the text receive_text returns: the oldest one not yet received
NextReport(q) == Head(q)

\* the list iterator of line 58: the next item is the one at the index, if any
HasNext(l, i) == i < Len(l)
NextItem(l, i) == l[i + 1]

\* a websocket coroutine is resumed by the event loop: nothing else is running
\* on it, and none of the donation's state is touched
Resumes == loop = Free /\ UNCHANGED <<loop, admitvars, call, plan>>

HubInit ==
    /\ active_connections = <<>>
    /\ pc = [c \in Conns |-> "idle"]
    /\ driver_id = [c \in Conns |-> "D1"]
    /\ open = [c \in Conns |-> FALSE]
    /\ inbox = [c \in Conns |-> <<>>]
    /\ message = [c \in Conns |-> NoMsg]
    /\ it = [c \in Conns |-> 0]
    /\ connection = [c \in Conns |-> NoConn]
    /\ delivered = [c \in Conns |-> <<>>]
    /\ nsent = 0
    /\ start = [c \in Conns |-> <<>>]
    /\ slow = NoConn
    /\ call = NoCall
    /\ plan = NoPlan

\* "for connection in self.active_connections" (lines 58-59) of the broadcast
\* of msg by c, begun on registry st, the iterator standing at i: either the
\* next send_text is awaited, or the loop is over, broadcast_location returns
\* and the handler is back at receive_text (line 69)
ForLoop(c, msg, st, i) ==
    IF HasNext(active_connections', i)
    THEN /\ pc' = [pc EXCEPT ![c] = "send"]
         /\ message' = [message EXCEPT ![c] = msg]
         /\ it' = [it EXCEPT ![c] = i + 1]
         /\ connection' = [connection EXCEPT ![c] = NextItem(active_connections', i)]
         /\ start' = [start EXCEPT ![c] = st]
    ELSE /\ pc' = [pc EXCEPT ![c] = "receive"]
         /\ message' = [message EXCEPT ![c] = NoMsg]
         /\ it' = [it EXCEPT ![c] = 0]
         /\ connection' = [connection EXCEPT ![c] = NoConn]
         /\ start' = [start EXCEPT ![c] = <<>>]

\* an exception err leaves the try of lines 66-71 in the handler of c:
\* WebSocketDisconnect is caught (lines 72-73) and disconnect(websocket) is
\* called with the handler's own websocket; anything else ends the handler.
\* Either way websocket_endpoint is over, and the server closes its connection
Except(c, err) ==
    /\ open' = [open EXCEPT ![c] = FALSE]
    /\ IF err = "WebSocketDisconnect"
       THEN LET r == disconnect(active_connections, c)
            IN /\ active_connections' = r.list
               /\ pc' = [pc EXCEPT ![c] =
                      IF r.raised = "none" THEN "done" ELSE "crashed"]
       ELSE /\ pc' = [pc EXCEPT ![c] = "crashed"]
            /\ UNCHANGED active_connections

\* lines 50-52 with the append moved before the await of accept()
connectAppendsFirst(l, ws, accepted) == ListAppend(l, ws)

\* connect, lines 50-52: the list after the call, given whether accept()
\* returned or raised
connect(l, ws, accepted) == IF accepted THEN ListAppend(l, ws) ELSE l

\* a client opens /ws/track/{d}: websocket_endpoint starts with a new
\* WebSocket object (the next unused one) and awaits accept()
Open(c, d) ==
    /\ Resumes
    /\ pc[c] = "idle"
    /\ \A b \in 1..(c - 1) : pc[b] # "idle"
    /\ pc' = [pc EXCEPT ![c] = "accept"]
    /\ driver_id' = [driver_id EXCEPT ![c] = d]
    /\ open' = [open EXCEPT ![c] = TRUE]
    /\ UNCHANGED <<active_connections, inbox, message, it, connection,
                   delivered, nsent, start, slow>>

\* connect, lines 50-52: the handshake succeeded, the websocket is appended;
\* the handler goes on to receive_text
Accept(c) ==
    /\ Resumes
    /\ pc[c] = "accept"
    /\ open[c]
    /\ active_connections' = connect(active_connections, c, TRUE)
    /\ pc' = [pc EXCEPT ![c] = "receive"]
    /\ UNCHANGED <<driver_id, open, inbox, message, it, connection, delivered,
                   nsent, start, slow>>

\* connect, line 51: accept() raises, outside the try of line 66
AcceptFails(c) ==
    /\ Resumes
    /\ pc[c] = "accept"
    /\ ~open[c]
    /\ active_connections' = connect(active_connections, c, FALSE)
    /\ pc' = [pc EXCEPT ![c] = "crashed"]
    /\ UNCHANGED <<driver_id, open, inbox, message, it,
                   connection, delivered, nsent, start, slow>>

\* lines 69-71, up to the first await of the broadcast
Receive(c) ==
    /\ Resumes
    /\ pc[c] = "receive"
    /\ inbox[c] # <<>>
    /\ UNCHANGED <<active_connections, driver_id, open, delivered, nsent, slow>>
    /\ LET data == NextReport(inbox[c])
       IN /\ inbox' = [inbox EXCEPT ![c] = SelectSeq(inbox[c], LAMBDA r : r # data)]
          /\ ForLoop(c, [text |-> FormatLocation(driver_id[c], data.text),
                         from |-> c, n |-> data.n],
                     active_connections, 0)

\* line 69 raises WebSocketDisconnect: the client is gone and nothing it sent
\* is left to read
ReceiveDisconnect(c) ==
    /\ Resumes
    /\ pc[c] = "receive"
    /\ inbox[c] = <<>>
    /\ ~open[c]
    /\ Except(c, "WebSocketDisconnect")
    /\ UNCHANGED <<driver_id, inbox, message, it, connection, delivered,
                   nsent, start, slow>>

\* line 59 completes: the text reached the client; the loop goes on
SendText(c) ==
    /\ Resumes
    /\ pc[c] = "send"
    /\ open[connection[c]]
    /\ connection[c] # slow
    /\ UNCHANGED <<active_connections, driver_id, open, inbox, nsent, slow>>
    /\ delivered' = [delivered EXCEPT ![connection[c]] = Append(@, message[c])]
    /\ ForLoop(c, message[c], start[c], it[c])

\* line 59 raises: the client of the websocket being sent to is gone. The
\* exception leaves broadcast_location (no handler there) and reaches the try
\* of the sender's websocket_endpoint
SendTextFails(c, err) ==
    /\ Resumes
    /\ pc[c] = "send"
    /\ ~open[connection[c]]
    /\ Except(c, err)
    /\ message' = [message EXCEPT ![c] = NoMsg]
    /\ it' = [it EXCEPT ![c] = 0]
    /\ connection' = [connection EXCEPT ![c] = NoConn]
    /\ start' = [start EXCEPT ![c] = <<>>]
    /\ UNCHANGED <<driver_id, inbox, delivered, nsent, slow>>

\* the environment: a connected client sends a position report, one of at most
\* `most` in a run
ClientSend(c, p, most) ==
    /\ UNCHANGED <<loop, admitvars, call, plan>>
    /\ pc[c] \in {"receive", "send"}
    /\ open[c]
    /\ nsent < most
    /\ nsent' = nsent + 1
    /\ inbox' = [inbox EXCEPT ![c] = Append(@, [text |-> p, n |-> nsent + 1])]
    /\ UNCHANGED <<active_connections, pc, driver_id, open, message, it,
                   connection, delivered, start, slow>>

\* the environment: a client goes away
ClientClose(c) ==
    /\ UNCHANGED <<loop, admitvars, call, plan>>
    /\ open[c]
    /\ open' = [open EXCEPT ![c] = FALSE]
    /\ UNCHANGED <<active_connections, pc, driver_id, inbox, message, it,
                   connection, delivered, nsent, start, slow>>

\* the environment: the client of c stops reading, so that no send to it
\* completes from now on
Stall(c) ==
    /\ slow = NoConn
    /\ pc[c] # "idle"
    /\ slow' = c
    /\ UNCHANGED <<active_connections, pc, driver_id, open, inbox, message, it,
                   connection, delivered, nsent, start, call, plan, loop, admitvars>>

\* the websocket side of the program for the websockets cs
TrackNext(cs, most) ==
    \/ \E c \in cs, d \in Drivers : Open(c, d)
    \/ \E c \in cs : Accept(c)
    \/ \E c \in cs : AcceptFails(c)
    \/ \E c \in cs : Receive(c)
    \/ \E c \in cs : ReceiveDisconnect(c)
    \/ \E c \in cs : SendText(c)
    \/ \E c \in cs, err \in SendErrors : SendTextFails(c, err)
    \/ \E c \in cs, p \in Payloads : ClientSend(c, p, most)
    \/ \E c \in cs : ClientClose(c)

\* ConnectionManager's methods called directly, as any caller may: connect
\* of a websocket of /ws/track/{d} with the handshake done, disconnect of any
\* websocket, and broadcast_location of a report of driver d
ManagerConnect(ws, d) ==
    /\ ws \notin Range(active_connections)
    /\ active_connections' = connect(active_connections, ws, TRUE)
    /\ driver_id' = [driver_id EXCEPT ![ws] = d]
    /\ open' = [open EXCEPT ![ws] = TRUE]
    /\ UNCHANGED <<pc, inbox, message, it, connection,
                   delivered, nsent, start, slow, call, plan, loop, admitvars>>

ManagerDisconnect(ws) ==
    /\ LET r == disconnect(active_connections, ws)
       IN /\ active_connections' = r.list
          /\ call' = [ws |-> ws, raised |-> r.raised,
                      before |-> active_connections, after |-> r.list]
    /\ UNCHANGED <<pc, driver_id, open, inbox, message, it, connection,
                   delivered, nsent, start, slow, plan, loop, admitvars>>

\* lines 57-59 run to their end, every send_text completing: the message goes
\* to each element of the list
ManagerBroadcast(d, p) ==
    /\ nsent < MaxReports
    /\ nsent' = nsent + 1
    /\ LET msg == [text |-> FormatLocation(d, p), from |-> NoConn, n |-> nsent + 1]
       IN delivered' = [k \in Conns |->
              IF k \in Range(active_connections)
              THEN Append(delivered[k], msg) ELSE delivered[k]]
    /\ UNCHANGED <<active_connections, pc, driver_id, open, inbox, message, it,
                   connection, start, slow, call, plan, loop, admitvars>>

ManagerNext ==
    \/ \E ws \in Conns, d \in Drivers : ManagerConnect(ws, d)
    \/ \E d \in Drivers, p \in Payloads : ManagerBroadcast(d, p)
    \/ \E ws \in Conns : ManagerDisconnect(ws)

\* ------------------------------------------------------------ donate_food

BrightnessMin == 40
BlurrinessMin == 100

\* a measurement (np.mean, var) is a float: its whole part, and whether a
\* fraction follows
Measures(ws) == [whole : ws, frac : BOOLEAN]

\* line 21, with >= for >
AtLeast(m, t) == m.whole >= t

\* line 21: m > t
Above(m, t) == m.whole > t \/ (m.whole = t /\ m.frac)
Truncate(m) == m.whole

\* what is uploaded: bytes that decode to an image with these statistics, or
\* bytes that are no image
Images ==
    [valid : {TRUE},
     brightness : Measures({BrightnessMin - 1, BrightnessMin, BrightnessMin + 1}),
     blurriness : Measures({BlurrinessMin - 1, BlurrinessMin, BlurrinessMin + 1})]
    \cup {[valid |-> FALSE, brightness |-> [whole |-> 0, frac |-> FALSE],
           blurriness |-> [whole |-> 0, frac |-> FALSE]]}

NoImage == [valid |-> FALSE]
NoQuality == [is_fresh |-> FALSE, score |-> -1]
NoDecision == [status |-> "none"]

\* lines 12-16: imdecode returns None for bytes that are no image, and
\* cvtColor raises on None
Decodes(img) == img.valid

\* lines 17-22
analyze_food_quality(img) ==
    [is_fresh |-> Above(img.brightness, BrightnessMin)
                  /\ Above(img.blurriness, BlurrinessMin),
     score |-> Truncate(img.brightness)]

\* lines 25-43: the solver's solution is not used
calculate_route(locations) ==
    "Optimized Path: Restaurant -> Shelter B -> Shelter A"

\* what a location list may hold: the values donate_food passes (line 86)
Places == {0, 1, 2}
LocationLists == UNION {[1..n -> Places] : n \in 1..MaxStops}

\* calculate_route called directly with any list of locations
PlanRoute(locations) ==
    /\ plan' = [locations |-> locations, route |-> calculate_route(locations)]
    /\ UNCHANGED <<active_connections, pc, driver_id, open, inbox, message, it,
                   connection, delivered, nsent, start, slow, call, loop,
                   admitvars>>

PlanNext == \E locations \in LocationLists : PlanRoute(locations)

\* line 82, with the test dropped
RejectsNothing(q) == FALSE

\* line 82
Rejects(q) == ~q.is_fresh

\* line 83, with the reason left out
RejectedWithoutReason == [status |-> "Rejected"]

\* line 83: the dict returned for a rejected donation
RejectedDecision ==
    [status |-> "Rejected", reason |-> "AI detected quality issues"]

\* line 87, with a reason added
AcceptedWithReason(route) ==
    [status |-> "Accepted", route |-> route, reason |-> ""]

\* line 87: the dict returned for an accepted donation
AcceptedDecision(route) == [status |-> "Accepted", route |-> route]

AdmitInit ==
    /\ loop = Free
    /\ apc = [a \in Admits |-> "idle"]
    /\ contents = [a \in Admits |-> NoImage]
    /\ quality = [a \in Admits |-> NoQuality]
    /\ routed = [a \in Admits |-> FALSE]
    /\ decision = [a \in Admits |-> NoDecision]

\* a POST /donate arrives: donate_food starts and awaits file.read() (line 79)
Donate(a) ==
    /\ loop = Free
    /\ apc[a] \in {"idle", "returned", "raised"}
    /\ apc' = [apc EXCEPT ![a] = "read"]
    /\ contents' = [contents EXCEPT ![a] = NoImage]
    /\ quality' = [quality EXCEPT ![a] = NoQuality]
    /\ routed' = [routed EXCEPT ![a] = FALSE]
    /\ decision' = [decision EXCEPT ![a] = NoDecision]
    /\ UNCHANGED <<hubvars, loop>>

\* line 79 completes: from here to its return donate_food awaits nothing, so
\* it keeps the event loop
FileRead(a, img) ==
    /\ loop = Free
    /\ apc[a] = "read"
    /\ loop' = {a}
    /\ apc' = [apc EXCEPT ![a] = "analyze"]
    /\ contents' = [contents EXCEPT ![a] = img]
    /\ UNCHANGED <<hubvars, quality, routed, decision>>

\* line 80
Analyze(a) ==
    /\ loop = {a}
    /\ apc[a] = "analyze"
    /\ IF Decodes(contents[a])
       THEN /\ quality' = [quality EXCEPT ![a] = analyze_food_quality(contents[a])]
            /\ apc' = [apc EXCEPT ![a] = "check"]
            /\ UNCHANGED loop
       ELSE /\ apc' = [apc EXCEPT ![a] = "raised"]
            /\ loop' = Free
            /\ UNCHANGED quality
    /\ UNCHANGED <<hubvars, contents, routed, decision>>

\* lines 82-83
Check(a) ==
    /\ loop = {a}
    /\ apc[a] = "check"
    /\ IF Rejects(quality[a])
       THEN /\ decision' = [decision EXCEPT ![a] = RejectedDecision]
            /\ apc' = [apc EXCEPT ![a] = "returned"]
            /\ loop' = Free
       ELSE /\ apc' = [apc EXCEPT ![a] = "route"]
            /\ UNCHANGED <<decision, loop>>
    /\ UNCHANGED <<hubvars, contents, quality, routed>>

\* lines 86-87
Route(a) ==
    /\ loop = {a}
    /\ apc[a] = "route"
    /\ routed' = [routed EXCEPT ![a] = TRUE]
    /\ decision' = [decision EXCEPT ![a] =
          AcceptedDecision(calculate_route(<<0, 1, 2>>))]
    /\ apc' = [apc EXCEPT ![a] = "returned"]
    /\ loop' = Free
    /\ UNCHANGED <<hubvars, contents, quality>>

DonateNext ==
    \/ \E a \in Admits : Donate(a)
    \/ \E a \in Admits, img \in Images : FileRead(a, img)
    \/ \E a \in Admits : Analyze(a)
    \/ \E a \in Admits : Check(a)
    \/ \E a \in Admits : Route(a)

\* ---------------------------------------------------------- specifications

Init == HubInit /\ AdmitInit

\* the live tracking alone
HubNext == TrackNext(Conns, MaxReports)
HubSpec == Init /\ [][HubNext]_vars

\* the donations alone
AdmitSpec == Init /\ [][DonateNext]_vars

\* donations and one tracked driver on the same event loop
Next == TrackNext({1}, MaxReports) \/ DonateNext
Spec == Init /\ [][Next]_vars

\* the live tracking of all websockets but one, with one more report
PairNext == TrackNext(Conns \ {NumConns}, MaxReports + 1)
PairSpec == Init /\ [][PairNext]_vars

\* ConnectionManager alone, under direct calls
ManagerSpec == Init /\ [][ManagerNext]_vars

\* calculate_route alone, under direct calls
PlannerSpec == Init /\ [][PlanNext]_vars

\* the live tracking when no client goes away and the client of one websocket
\* never takes what is sent to it. The event loop resumes every coroutine that
\* can go on, so each step of a handler is weakly fair; what clients do is not
SlowNext ==
    \/ \E c \in Conns, d \in Drivers : Open(c, d)
    \/ \E c \in Conns : Accept(c)
    \/ \E c \in Conns : Receive(c)
    \/ \E c \in Conns : SendText(c)
    \/ \E c \in Conns, p \in Payloads : ClientSend(c, p, MaxReports)
    \/ \E c \in Conns : Stall(c)
SlowSpec ==
    /\ Init
    /\ [][SlowNext]_vars
    /\ \A c \in Conns : /\ WF_vars(Accept(c))
                         /\ WF_vars(Receive(c))
                         /\ WF_vars(SendText(c))

\* ------------------------------------------------------------ properties

\* m is among what reached the client of k, in the log d
GotIn(d, k, m) == \E i \in 1..Len(d[k]) : d[k][i] = m
Registered(l) == Range(l)
Analysing(a) == apc[a] \in {"analyze", "check", "route"}

\* the handler of c is about to learn that its send to another websocket,
\* whose client is gone, failed
SendFailing(c) ==
    /\ pc[c] = "send"
    /\ connection[c] # c
    /\ ~open[connection[c]]
    /\ <<pc[c], it[c]>>' # <<pc[c], it[c]>>

\* C1: calculate_route is called only by a donate_food call whose quality
\* verdict, computed in that same call, is fresh (passed).
C1_RouteOnlyWhenFresh ==
    \A a \in Admits : (apc[a] = "route" \/ routed[a]) => quality[a].is_fresh

\* C1's case: one call was rejected without routing, another passed and routed
C1_Witness ==
    \E a, b \in Admits :
        /\ apc[a] = "returned" /\ ~quality[a].is_fresh /\ ~routed[a]
        /\ apc[b] = "returned" /\ quality[b].is_fresh /\ routed[b]

\* C2: a broadcast for driver d reaches no websocket that connected under
\* another driver_id.
C2_BroadcastScopedToDriver ==
    \A k \in Conns : \A i \in 1..Len(delivered[k]) :
        driver_id[delivered[k][i].from] = driver_id[k]

\* C3: when the send to one subscriber fails, the broadcast neither ends in an
\* exception for its caller nor leaves out any other open subscriber.
C3_FailureIsContained ==
    [][\A c \in Conns : SendFailing(c) =>
          /\ pc'[c] \in {"send", "receive"}
          /\ pc'[c] # "send" =>
                \A k \in Registered(active_connections) \ {connection[c]} :
                    open[k] => GotIn(delivered', k, message[c])]_vars

\* C4: the subscriber whose send failed is removed from the registry.
C4_FailedSubscriberRemoved ==
    [][\A c \in Conns : SendFailing(c) =>
          connection[c] \notin Registered(active_connections')]_vars

\* C5: a websocket whose receive loop has ended, for whatever reason, has no
\* entry in the registry.
C5_NoOrphanedEntries ==
    \A c \in Conns :
        pc[c] \in {"done", "crashed"} => c \notin Registered(active_connections)

\* C6: a broadcast for driver d that ran on an unchanging registry ends with
\* exactly as many deliveries as there are subscribers registered under d
\* (N after N connects, N-1 once one of them has disconnected).
C6_OneDeliveryPerSubscriber ==
    [][\A c \in Conns :
          (pc[c] = "send" /\ pc'[c] = "receive" /\ start[c] = active_connections')
          => Cardinality({k \in Conns : GotIn(delivered', k, message[c])})
             = Cardinality({k \in Registered(active_connections') :
                               driver_id[k] = driver_id[c]})]_vars

\* C7: disconnect of a websocket that is not in the registry raises nothing
\* and leaves the registry as it was.
C7_DisconnectIdempotent ==
    (call.ws # NoConn /\ call.ws \notin Registered(call.before))
    => call.raised = "none" /\ call.after = call.before

\* C8: when one subscriber's send never completes, every other subscriber the
\* running broadcast began with still gets the message.
C8_SlowSubscriberStallsNobody ==
    \A c, k \in Conns : \A n \in 1..MaxReports :
        (pc[c] = "send" /\ message[c].n = n /\ k \in Registered(start[c]))
        ~> (slow = k \/ \E i \in 1..Len(delivered[k]) : delivered[k][i].n = n)

\* C9: while a donation is being analysed or routed, a report that has arrived
\* on a websocket can be received and fanned out.
C9_TrackingNeverWaitsForDonation ==
    \A c \in Conns :
        ((\E a \in Admits : Analysing(a)) /\ pc[c] = "receive" /\ inbox[c] # <<>>)
        => ENABLED Receive(c)

\* C10: what one sender's reports lead to reaches every client in the order in
\* which the reports arrived from that sender.
C10_OrderPerSender ==
    \A k \in Conns : \A i, j \in 1..Len(delivered[k]) :
        (i < j /\ delivered[k][i].from = delivered[k][j].from)
        => delivered[k][i].n < delivered[k][j].n

\* C10's case: two reports of one sender reached another websocket's client,
\* with the broadcast of another sender's report between them
C10_Witness ==
    \E k, c \in Conns : \E i, j \in 1..Len(delivered[k]) :
        /\ k # c
        /\ i + 1 < j
        /\ delivered[k][i].from = c
        /\ delivered[k][j].from = c
        /\ delivered[k][i + 1].from # c

\* C11: a donation whose bytes are no image ends with a Rejected decision
\* whose reason is "unreadable image": the call does not end in an exception,
\* and no route is computed for it.
C11_UnreadableImageIsRejected ==
    \A a \in Admits :
        (apc[a] \in {"returned", "raised"} /\ ~Decodes(contents[a]))
        => /\ apc[a] = "returned"
           /\ decision[a] = [status |-> "Rejected", reason |-> "unreadable image"]
           /\ ~routed[a]

\* the stops a route text can name, and the text that lists an order of them
StopNames == {"Restaurant", "Shelter A", "Shelter B"}
RECURSIVE Arrows(_)
Arrows(order) ==
    IF Len(order) = 1 THEN order[1]
    ELSE order[1] \o " -> " \o Arrows(Tail(order))
RouteText(order) == "Optimized Path: " \o Arrows(order)
Orders == UNION {[1..n -> StopNames] : n \in 1..MaxStops}

\* the visiting orders that a route text lists
Visits(route) == {order \in Orders : RouteText(order) = route}

\* C12: the route returned for a list of locations lists a visiting order
\* that starts at the origin and has each location of the list exactly once
\* and nothing else: as many stops as the list has locations, none twice.
C12_RouteCoversItsStops ==
    plan # NoPlan =>
        \E order \in Visits(plan.route) :
            /\ order[1] = "Restaurant"
            /\ Len(order) = Len(plan.locations)
            /\ \A i, j \in 1..Len(order) : order[i] = order[j] => i = j

\* C13: every decision that donate_food returns has status "Accepted" or
\* "Rejected", has a reason exactly when it is Rejected, and has a route
\* exactly when it is Accepted.
C13_DecisionShape ==
    \A a \in Admits :
        apc[a] = "returned" =>
            /\ decision[a].status \in {"Accepted", "Rejected"}
            /\ "reason" \in DOMAIN decision[a] <=> decision[a].status = "Rejected"
            /\ "route" \in DOMAIN decision[a] <=> decision[a].status = "Accepted"

\* C13's case: one call has returned an Accepted decision and another a
\* Rejected one
C13_Witness ==
    \E a, b \in Admits :
        /\ apc[a] = "returned" /\ decision[a].status = "Accepted"
        /\ apc[b] = "returned" /\ decision[b].status = "Rejected"

\* the call a has analysed an image whose two measurements are whole numbers
Scored(a) ==
    /\ apc[a] \in {"check", "route", "returned"}
    /\ Decodes(contents[a])
    /\ ~contents[a].brightness.frac
    /\ ~contents[a].blurriness.frac

ReturnedUnfresh(a) ==
    /\ apc[a] = "returned"
    /\ Decodes(contents[a])
    /\ ~quality[a].is_fresh

NoSubscribers(l, d) == \A k \in Registered(l) : driver_id[k] # d

\* C16: a broadcast for a driver who has no subscriber in the registry
\* delivers nothing to any websocket and leaves the registry as it was,
\* whoever is registered for other drivers.
C16_BroadcastToNobody ==
    [][\A d \in Drivers, p \in Payloads :
          (ManagerBroadcast(d, p) /\ NoSubscribers(active_connections, d))
          => (delivered' = delivered /\ active_connections' = active_connections)]_vars

\* the handshake of c is still to come or under way
Connecting(c) == pc[c] \in {"idle", "accept"}

\* C17: a websocket is in the registry only after its handshake succeeded: no
\* registered websocket is still connecting, a connect whose handshake fails
\* leaves the registry as it was, and no broadcast sends to a websocket that
\* is still connecting.
C17_RegisteredAfterHandshake ==
    [][/\ \A k \in Registered(active_connections) : ~Connecting(k)
       /\ \A k \in Registered(active_connections') : ~Connecting(k)'
       /\ \A c \in Conns :
             (pc[c] = "accept" /\ pc'[c] = "crashed")
             => active_connections' = active_connections
       /\ \A c \in Conns :
             pc'[c] = "send"
             => pc'[connection'[c]] \notin {"idle", "accept"}]_vars

\* C17's case: the handshake of one websocket failed and it is not in the
\* registry, while a registered websocket's broadcast is sending
C17_Witness ==
    \E c, k \in Conns :
        /\ pc[c] = "crashed"
        /\ c \notin Registered(active_connections)
        /\ pc[k] = "send"
        /\ k \in Registered(active_connections)

\* how often m is in what reached the client of k, in the log d
TimesIn(d, k, m) == Cardinality({i \in 1..Len(d[k]) : d[k][i] = m})

\* C18: when a broadcast ends, every websocket that was registered when it
\* began, is still registered and whose client is still there has been sent
\* the message exactly once, whatever was added to or removed from the
\* registry while the broadcast was under way.
C18_BroadcastUndisturbed ==
    [][\A c, k \in Conns :
          (/\ pc[c] = "send" /\ pc'[c] = "receive"
           /\ k \in Registered(start[c])
           /\ k \in Registered(active_connections')
           /\ open'[k])
          => TimesIn(delivered', k, message[c]) = 1]_vars

\* C19: when a send to another websocket fails inside the broadcast of a
\* handler whose own client is still there, the handler's websocket stays in
\* the registry and its receive loop goes on.
C19_OnlyOwnClosureRemoves ==
    [][\A c \in Conns :
          (SendFailing(c) /\ open[c] /\ c \in Registered(active_connections))
          => /\ c \in Registered(active_connections')
             /\ pc'[c] \in {"send", "receive"}]_vars

\* the report that the broadcast message m was made of: what the client of c
\* sent as text p
ReportOf(c, m, p) ==
    /\ m.from = c
    /\ m.text = FormatLocation(driver_id[c], p)

\* C20: when the broadcast of a report received on a websocket is over, the
\* websocket being registered before and after and its client still there,
\* its own client has been sent "Driver {id} is at: {payload}" with its driver_id and the text
\* it sent.
C20_SenderHearsItself ==
    [][\A c \in Conns :
          (/\ pc[c] = "send" /\ pc'[c] # "send"
           /\ open[c]
           /\ c \in Registered(active_connections)
           /\ c \in Registered(active_connections'))
          => /\ \E p \in Payloads : ReportOf(c, message[c], p)
             /\ GotIn(delivered', c, message[c])]_vars

====
